---------------------------- MODULE Spec2Model ----------------------------
(***************************************************************************)
(* Model of the `pitches` crate: the frequency table and Pitch (lib.rs),   *)
(* Note, Letter, Octave, Accidental and their conversions (note.rs), and   *)
(* Interval (interval.rs).                                                 *)
(*                                                                         *)
(* A client holds one Note and calls the library's operations; `last`      *)
(* records the operation just performed, its inputs and what it returned.  *)
(* A Rust panic (unwrap on Err, index out of bounds) is the result         *)
(* Panic; a returned Result is Ok(v) or Err(e).                            *)
(***************************************************************************)
EXTENDS Integers, Sequences, FiniteSets

VARIABLES note, last

vars == <<note, last>>

----------------------------------------------------------------------------
(* Results *)

Ok(v) == [ok |-> TRUE, val |-> v, err |-> "none"]

Err(e) == [ok |-> FALSE, val |-> "none", err |-> e]

Panic == [ok |-> FALSE, val |-> "none", err |-> "panic"]

----------------------------------------------------------------------------
(* lib.rs: the frequency table and Pitch *)

\* FREQUENCIES, in hundredths of a hertz (16.35 Hz is 1635); the Rust array is
\* 0-based, the sequence 1-based: FREQUENCIES[i + 1] is the Rust FREQUENCIES[i].
FREQUENCIES ==
    << 1635, 1732, 1835, 1945, 2060, 2183, 2312, 2450, 2596, 2750, 2914, 3087,
       3270, 3465, 3671, 3889, 4120, 4365, 4625, 4900, 5191, 5500, 5827, 6174,
       6541, 6930, 7342, 7778, 8241, 8731, 9250, 9800, 10383, 11000, 11654, 12347,
       13081, 13859, 14683, 15556, 16481, 17461, 18500, 19600, 20765, 22000, 23308, 24694,
       26163, 27718, 29366, 31113, 32963, 34923, 36999, 39200, 41530, 44000, 46616, 49388,
       52325, 55437, 58733, 62225, 65925, 69846, 73999, 78399, 83061, 88000, 93233, 98777,
       104650, 110873, 117466, 124451, 131851, 139691, 147998, 156798, 166122, 176000, 186466, 197553,
       209300, 221746, 234932, 248902, 263702, 279383, 295996, 313596, 332244, 352000, 372931, 395107,
       418601, 443492, 469863, 497803, 527404, 558765, 591991, 627193, 664488, 704000, 745862, 790213 >>

\* PITCHES: one Pitch per table entry, index 0 .. FREQUENCIES.len() - 1.
PITCHES == [i \in 1..Len(FREQUENCIES) |-> [index |-> i - 1]]

\* PITCHES[index as usize]: the pitch, or the out-of-bounds panic.
PitchesAt(index) ==
    IF index + 1 \in DOMAIN PITCHES THEN Ok(PITCHES[index + 1]) ELSE Panic

PitchSet == {PITCHES[i] : i \in DOMAIN PITCHES}

PitchFrequency(p) == FREQUENCIES[p.index + 1]

PitchNumber(p) == p.index % 12

----------------------------------------------------------------------------
(* note.rs: Letter, Octave, Accidental *)

Letters == {"C", "D", "E", "F", "G", "A", "B"}

Octaves == {"First", "Second", "Third", "Fourth", "Fifth",
            "Sixth", "Seventh", "Eighth", "Ninth", "Tenth"}

Accidentals == {"None", "Flat", "Sharp"}

LetterPrevious(l) ==
    CASE l = "C" -> "B"
      [] l = "D" -> "C"
      [] l = "E" -> "D"
      [] l = "F" -> "A"
      [] l = "G" -> "F"
      [] l = "A" -> "G"
      [] l = "B" -> "A"

LetterNext(l) ==
    CASE l = "C" -> "D"
      [] l = "D" -> "E"
      [] l = "E" -> "F"
      [] l = "F" -> "G"
      [] l = "G" -> "A"
      [] l = "A" -> "B"
      [] l = "B" -> "C"

\* impl TryFrom<u8> for Octave
OctaveTryFrom(value) ==
    CASE value = 0 -> Ok("First")
      [] value = 1 -> Ok("Second")
      [] value = 2 -> Ok("Third")
      [] value = 3 -> Ok("Fourth")
      [] value = 4 -> Ok("Fifth")
      [] value = 5 -> Ok("Sixth")
      [] value = 6 -> Ok("Seventh")
      [] value = 7 -> Ok("Eighth")
      [] value = 8 -> Ok("Ninth")
      [] value = 9 -> Ok("Tenth")
      [] OTHER -> Err("OctaveNotInRange")

\* A plausible slip: the variants numbered from one, as their names read.
OctaveToU8OneBased(octave) ==
    CASE octave = "First" -> 1
      [] octave = "Second" -> 2
      [] octave = "Third" -> 3
      [] octave = "Fourth" -> 4
      [] octave = "Fifth" -> 5
      [] octave = "Sixth" -> 6
      [] octave = "Seventh" -> 7
      [] octave = "Eighth" -> 8
      [] octave = "Ninth" -> 9
      [] octave = "Tenth" -> 10

\* impl From<Octave> for u8
OctaveToU8(octave) ==
    CASE octave = "First" -> 0
      [] octave = "Second" -> 1
      [] octave = "Third" -> 2
      [] octave = "Fourth" -> 3
      [] octave = "Fifth" -> 4
      [] octave = "Sixth" -> 5
      [] octave = "Seventh" -> 6
      [] octave = "Eighth" -> 7
      [] octave = "Ninth" -> 8
      [] octave = "Tenth" -> 9

\* Pitch::octave: (self.index / 12).try_into().unwrap()
PitchOctave(p) ==
    LET r == OctaveTryFrom(p.index \div 12)
    IN  IF r.ok THEN r ELSE Panic

----------------------------------------------------------------------------
(* note.rs: Note *)

MkNote(letter, octave, accidental) ==
    [letter |-> letter, octave |-> octave, accidental |-> accidental]

\* A plausible slip: F missing from the letters that take no flat.
NoteNewFlatF(letter, octave, accidental) ==
    CASE accidental = "None" -> Ok(MkNote(letter, octave, accidental))
      [] accidental = "Flat" ->
            IF letter \in {"C"}
            THEN Err("IncorrectAccidental")
            ELSE Ok(MkNote(letter, octave, accidental))
      [] accidental = "Sharp" ->
            IF letter \in {"E", "B"}
            THEN Err("IncorrectAccidental")
            ELSE Ok(MkNote(letter, octave, accidental))

\* Note::new
NoteNew(letter, octave, accidental) ==
    CASE accidental = "None" -> Ok(MkNote(letter, octave, accidental))
      [] accidental = "Flat" ->
            IF letter \in {"C", "F"}
            THEN Err("IncorrectAccidental")
            ELSE Ok(MkNote(letter, octave, accidental))
      [] accidental = "Sharp" ->
            IF letter \in {"E", "B"}
            THEN Err("IncorrectAccidental")
            ELSE Ok(MkNote(letter, octave, accidental))

\* A plausible slip: the letter is stepped but the accidental is not flipped.
EnharmonicKeepsAccidental(self) ==
    CASE self.accidental = "None" -> self
      [] self.accidental = "Flat" ->
            MkNote(LetterPrevious(self.letter), self.octave, "Flat")
      [] self.accidental = "Sharp" ->
            MkNote(LetterNext(self.letter), self.octave, "Sharp")

\* Note::enharmonic
Enharmonic(self) ==
    CASE self.accidental = "None" -> self
      [] self.accidental = "Flat" ->
            MkNote(LetterPrevious(self.letter), self.octave, "Sharp")
      [] self.accidental = "Sharp" ->
            MkNote(LetterNext(self.letter), self.octave, "Flat")

\* The match of impl From<Pitch> for Note: the Result of Note::new per number.
CanonicalNew(number, octave) ==
    CASE number = 0 -> NoteNew("C", octave, "None")
      [] number = 1 -> NoteNew("C", octave, "Sharp")
      [] number = 2 -> NoteNew("D", octave, "None")
      [] number = 3 -> NoteNew("D", octave, "Sharp")
      [] number = 4 -> NoteNew("E", octave, "None")
      [] number = 5 -> NoteNew("F", octave, "None")
      [] number = 6 -> NoteNew("F", octave, "Sharp")
      [] number = 7 -> NoteNew("G", octave, "None")
      [] number = 8 -> NoteNew("G", octave, "Sharp")
      [] number = 9 -> NoteNew("A", octave, "None")
      [] number = 10 -> NoteNew("A", octave, "Sharp")
      [] number = 11 -> NoteNew("B", octave, "None")
      [] OTHER -> Panic

\* A plausible slip: the black keys spelled with flats of the next letter.
NoteFromPitchFlats(pitch) ==
    LET number == PitchNumber(pitch)
        octave == PitchOctave(pitch)
    IN  IF ~octave.ok THEN Panic
        ELSE IF number \in {1, 3, 6, 8, 10}
             THEN Ok(Enharmonic(CanonicalNew(number, octave.val).val))
             ELSE CanonicalNew(number, octave.val)

\* impl From<Pitch> for Note: pitch.octave() may panic, the match's Result is
\* unwrapped.
NoteFromPitch(pitch) ==
    LET number == PitchNumber(pitch)
        octave == PitchOctave(pitch)
    IN  IF ~octave.ok THEN Panic
        ELSE LET r == CanonicalNew(number, octave.val)
             IN  IF r.ok THEN r ELSE Panic

\* The match on the letter in impl From<Note> for Pitch.
LetterOffset(letter) ==
    CASE letter = "C" -> 0
      [] letter = "D" -> 2
      [] letter = "E" -> 4
      [] letter = "F" -> 5
      [] letter = "G" -> 7
      [] letter = "A" -> 9
      [] letter = "B" -> 11

\* The u8 index of impl From<Note> for Pitch. octave * 12 + offset is at most
\* 9 * 12 + 11, so only `index -= 1` at 0 leaves the u8 range: a debug build
\* panics there and a release build wraps to 255.
NoteIndex(n) ==
    LET base == (OctaveToU8(n.octave) * 12 + LetterOffset(n.letter)) % 256
    IN  CASE n.accidental = "Flat" -> (base - 1) % 256
          [] n.accidental = "Sharp" -> (base + 1) % 256
          [] OTHER -> base

\* A plausible slip: the accidental adjustment left out.
PitchFromNoteNoAccidental(n) ==
    PitchesAt((OctaveToU8(n.octave) * 12 + LetterOffset(n.letter)) % 256)

\* impl From<Note> for Pitch. The wrapped index 255 is out of the table's
\* bounds, so the debug build's overflow panic and the release build's
\* indexing panic are the same outcome.
PitchFromNote(n) == PitchesAt(NoteIndex(n))

Ordering(a, b) == IF a < b THEN "Less" ELSE IF a > b THEN "Greater" ELSE "Equal"

\* impl Ord for Note :: cmp (partial_cmp computes the same, wrapped in Some)
NoteCmp(a, b) ==
    LET pa == PitchFromNote(a)
        pb == PitchFromNote(b)
    IN  IF ~pa.ok \/ ~pb.ok THEN Panic
        ELSE Ok(Ordering(pa.val.index, pb.val.index))

\* The notes the public interface can build: the Ok results of Note::new.
ValidNotes ==
    {NoteNew(l, o, a).val : <<l, o, a>> \in
        {t \in Letters \X Octaves \X Accidentals : NoteNew(t[1], t[2], t[3]).ok}}

----------------------------------------------------------------------------
(* interval.rs: Interval over f64 *)

\* The f64 values the model draws frequencies from: NaN, the infinities, the
\* signed zeros and the signed powers of two s * 2^e. The quotient of two
\* powers of two is exact up to overflow and underflow. A logarithm or a cents
\* value is NaN, an infinity or a finite f64 (kind "fin"). The roundings of
\* ln, of the product and of the quotient do not cancel (Interval::new(1.0,
\* 2^1023) holds 1227600.0000000002 cents), so a finite value is described by
\* what the roundings leave exact: a finite logarithm by the exponent it is
\* the logarithm of, finite cents by their sign s and by v, the value rounded
\* to the nearest integer (f64::round), which is 1200 * e for every quotient
\* 2^e of the f64 range.
F64MaxExp == 1023

F64MinExp == -1074

MaxExp == 2

NaN == [k |-> "nan", s |-> 0, e |-> 0]

Inf(s) == [k |-> "inf", s |-> s, e |-> 0]

Zero(s) == [k |-> "zero", s |-> s, e |-> 0]

Pow2(s, e) == [k |-> "fin", s |-> s, e |-> e]

RNaN == [k |-> "nan", s |-> 0, v |-> 0]

RInf(s) == [k |-> "inf", s |-> s, v |-> 0]

Sign(n) == IF n > 0 THEN 1 ELSE IF n < 0 THEN -1 ELSE 0

\* The f64 that f64::ln returns for 2^e, named by e: zero for e = 0, of the
\* sign of e otherwise.
LnPow2(e) == [k |-> "fin", s |-> Sign(e), v |-> e]

\* Finite cents whose nearest integer is n.
RFin(n) == [k |-> "fin", s |-> Sign(n), v |-> n]

SampleExps == {F64MinExp, F64MaxExp} \cup (-MaxExp .. MaxExp)

Frequencies ==
    {NaN} \cup {Inf(s) : s \in {-1, 1}} \cup {Zero(s) : s \in {-1, 1}}
          \cup {Pow2(s, e) : s \in {-1, 1}, e \in SampleExps}

\* a / b in IEEE 754 double precision.
FDiv(a, b) ==
    CASE a.k = "nan" \/ b.k = "nan" -> NaN
      [] a.k = "inf" /\ b.k = "inf" -> NaN
      [] a.k = "zero" /\ b.k = "zero" -> NaN
      [] a.k = "inf" -> Inf(a.s * b.s)
      [] b.k = "inf" -> Zero(a.s * b.s)
      [] a.k = "zero" -> Zero(a.s * b.s)
      [] b.k = "zero" -> Inf(a.s * b.s)
      [] OTHER ->
            IF a.e - b.e > F64MaxExp THEN Inf(a.s * b.s)
            ELSE IF a.e - b.e < F64MinExp THEN Zero(a.s * b.s)
            ELSE Pow2(a.s * b.s, a.e - b.e)

\* f64::ln: NaN below zero, -inf at either zero, +inf at +inf, and the f64
\* nearest e * ln 2 at 2^e.
FLn(x) ==
    CASE x.k = "nan" -> RNaN
      [] x.k = "zero" -> RInf(-1)
      [] x.s = -1 -> RNaN
      [] x.k = "inf" -> RInf(1)
      [] OTHER -> LnPow2(x.e)

\* 1200.0 * l / (2.0_f64).ln(): for l the logarithm of 2^e the result is
\* within rounding error of 1200 * e, so it has the sign of e and rounds to
\* the integer 1200 * e.
CentsOfLn(l) ==
    CASE l.k = "nan" -> RNaN
      [] l.k = "inf" -> RInf(l.s)
      [] OTHER -> RFin(1200 * l.v)

\* A plausible slip: the value wrapped without the NaN check.
NotNanNewUnchecked(x) == Ok(x)

\* ordered_float's NotNan::new as Interval::new uses it: Err exactly on NaN.
NotNanNew(x) == IF x.k = "nan" THEN Err("FloatIsNan") ELSE Ok(x)

\* Interval::new
IntervalNew(frequency_0, frequency_1) ==
    LET cents == CentsOfLn(FLn(FDiv(frequency_1, frequency_0)))
        r == NotNanNew(cents)
    IN  IF r.ok THEN Ok([cents |-> r.val]) ELSE Panic

----------------------------------------------------------------------------
(* The client *)

\* The client holds no note yet.
NoNote == [letter |-> "none", octave |-> "none", accidental |-> "none"]

\* The record of a call: the operation, its arguments and its result.
Did(op, arg, arg2, res) == [op |-> op, arg |-> arg, arg2 |-> arg2, res |-> res]

Init ==
    /\ note = NoNote
    /\ last = Did("init", "none", "none", Ok("none"))

\* Note::new(letter, octave, accidental); the client keeps an Ok note.
New(letter, octave, accidental) ==
    LET r == NoteNew(letter, octave, accidental)
    IN  /\ last' = Did("new", <<letter, octave, accidental>>, "none", r)
        /\ note' = IF r.ok THEN r.val ELSE note

\* Note::from(pitch), for a pitch of PITCHES.
FromPitch(pitch) ==
    LET r == NoteFromPitch(pitch)
    IN  /\ last' = Did("from_pitch", pitch, "none", r)
        /\ note' = IF r.ok THEN r.val ELSE note

\* note.enharmonic(); the client keeps the returned note.
DoEnharmonic ==
    /\ note # NoNote
    /\ note' = Enharmonic(note)
    /\ last' = Did("enharmonic", note, "none", Ok(Enharmonic(note)))

\* Pitch::from(note)
ToPitch ==
    /\ note # NoNote
    /\ last' = Did("to_pitch", note, "none", PitchFromNote(note))
    /\ UNCHANGED note

\* note.cmp(&other)
Cmp(other) ==
    /\ note # NoNote
    /\ last' = Did("cmp", note, other, NoteCmp(note, other))
    /\ UNCHANGED note

\* letter.previous()
Previous(letter) ==
    /\ last' = Did("previous", letter, "none", Ok(LetterPrevious(letter)))
    /\ UNCHANGED note

\* letter.next()
Next_(letter) ==
    /\ last' = Did("next", letter, "none", Ok(LetterNext(letter)))
    /\ UNCHANGED note

\* Interval::new(frequency_0, frequency_1)
NewInterval(frequency_0, frequency_1) ==
    /\ last' = Did("interval", frequency_0, frequency_1,
                   IntervalNew(frequency_0, frequency_1))
    /\ UNCHANGED note

Next ==
    \/ \E l \in Letters, o \in Octaves, a \in Accidentals : New(l, o, a)
    \/ \E p \in PitchSet : FromPitch(p)
    \/ DoEnharmonic
    \/ ToPitch
    \/ \E l \in Letters : Previous(l)
    \/ \E l \in Letters : Next_(l)

Spec == Init /\ [][Next]_vars

\* A client that builds notes and compares the one it holds with any valid note.
NextOrder ==
    \/ \E l \in Letters, o \in Octaves, a \in Accidentals : New(l, o, a)
    \/ \E p \in PitchSet : FromPitch(p)
    \/ DoEnharmonic
    \/ \E other \in ValidNotes : Cmp(other)

SpecOrder == Init /\ [][NextOrder]_vars

\* Interval is independent of Pitch and Note: a client of Interval::new alone,
\* with the frequencies drawn from Frequencies.
NextInterval ==
    \E f0 \in Frequencies, f1 \in Frequencies : NewInterval(f0, f1)

SpecInterval == Init /\ [][NextInterval]_vars

----------------------------------------------------------------------------
(* The claims, stated over the client's last operation *)

\* The letter/accidental pairs the specification calls illegal.
IllegalPair(letter, accidental) ==
    \/ accidental = "Flat" /\ letter \in {"C", "F"}
    \/ accidental = "Sharp" /\ letter \in {"E", "B"}

Legal(n) == ~IllegalPair(n.letter, n.accidental)

\* The octaves in order, First = 0, and the natural semitone offsets, as the
\* specification lists them.
OctaveNames == <<"First", "Second", "Third", "Fourth", "Fifth",
                 "Sixth", "Seventh", "Eighth", "Ninth", "Tenth">>

OctaveNumber(o) == (CHOOSE i \in DOMAIN OctaveNames : OctaveNames[i] = o) - 1

SpecOffset == [C |-> 0, D |-> 2, E |-> 4, F |-> 5, G |-> 7, A |-> 9, B |-> 11]

SpecIndex(n) ==
    OctaveNumber(n.octave) * 12 + SpecOffset[n.letter]
        + (IF n.accidental = "Sharp" THEN 1 ELSE 0)
        - (IF n.accidental = "Flat" THEN 1 ELSE 0)

\* The canonical spelling of each chromatic number 0..11.
Canonical ==
    << <<"C", "None">>, <<"C", "Sharp">>, <<"D", "None">>, <<"D", "Sharp">>,
       <<"E", "None">>, <<"F", "None">>, <<"F", "Sharp">>, <<"G", "None">>,
       <<"G", "Sharp">>, <<"A", "None">>, <<"A", "Sharp">>, <<"B", "None">> >>

\* The letters in cyclic order.
Cycle == <<"C", "D", "E", "F", "G", "A", "B">>

CyclePos(l) == CHOOSE i \in DOMAIN Cycle : Cycle[i] = l

\* C1: Note::new returns Err(IncorrectAccidental) exactly for Flat on C or F
\* and Sharp on E or B, and otherwise Ok with a note holding exactly the given
\* letter, octave and accidental.
C1_NewRejectsExactlyIllegalPairs ==
    last.op = "new" =>
        IF IllegalPair(last.arg[1], last.arg[3])
        THEN last.res = Err("IncorrectAccidental")
        ELSE /\ last.res.ok
             /\ last.res.val.letter = last.arg[1]
             /\ last.res.val.octave = last.arg[2]
             /\ last.res.val.accidental = last.arg[3]

\* Note::new(F, Tenth, Flat) was called and returned the error.
C1_Witness ==
    /\ last.op = "new"
    /\ last.arg = <<"F", "Tenth", "Flat">>
    /\ last.res = Err("IncorrectAccidental")

\* C2: for every pitch p of PITCHES, Note::from(p) succeeds and converting
\* the note back gives p: Pitch::from(Note::from(p)) == p.
C2_PitchNoteRoundTrip ==
    last.op = "from_pitch" =>
        /\ last.res.ok
        /\ PitchFromNote(last.res.val) = Ok(last.arg)

\* Note::from of pitch 106 gave a sharp (A sharp in Ninth), and converting it
\* back gave pitch 106.
C2_Witness ==
    /\ last.op = "from_pitch"
    /\ last.arg.index = 106
    /\ last.res.ok
    /\ last.res.val.accidental = "Sharp"
    /\ PitchFromNote(last.res.val) = Ok(last.arg)

\* C3 (as claimed): for every valid note n with a Flat or Sharp, in every one
\* of the ten octaves, Pitch::from(n.enharmonic()) and Pitch::from(n) both
\* resolve, to the same pitch.
C3_EnharmonicSamePitch ==
    (last.op = "enharmonic" /\ last.arg.accidental # "None") =>
        /\ PitchFromNote(last.arg).ok
        /\ PitchFromNote(last.res.val).ok
        /\ PitchFromNote(last.res.val) = PitchFromNote(last.arg)

\* C4 (as claimed): Pitch::from(note) fails only for a note in octave First
\* or Tenth that carries a Flat or Sharp; every valid note with accidental
\* None and every valid note in Second..Ninth converts to the pitch with
\* index octave*12 + letter offset (+1 Sharp, -1 Flat).
C4_FailsOnlyAtExtremeWithAccidental ==
    last.op = "to_pitch" =>
        /\ ~last.res.ok =>
              /\ last.arg.octave \in {"First", "Tenth"}
              /\ last.arg.accidental # "None"
        /\ (last.arg.accidental = "None" \/ last.arg.octave \notin {"First", "Tenth"}) =>
              /\ last.res.ok
              /\ last.res.val.index = SpecIndex(last.arg)

\* C5 (as claimed): Note(C, Fourth, Sharp) converts to the pitch of
\* 277.18 Hz, and its enharmonic is Note(D, Fourth, Flat), of the same
\* frequency.
C5_CSharpFourthIs27718 ==
    (last.op = "to_pitch" /\ last.arg = MkNote("C", "Fourth", "Sharp")) =>
        /\ last.res.ok
        /\ PitchFrequency(last.res.val) = 27718
        /\ Enharmonic(last.arg) = MkNote("D", "Fourth", "Flat")
        /\ PitchFromNote(Enharmonic(last.arg)).ok
        /\ PitchFrequency(PitchFromNote(Enharmonic(last.arg)).val) = 27718

\* C5 (amended): Note(C, Fourth, Sharp) converts to the pitch of 138.59 Hz
\* (index 37: Octave::Fourth is octave number 3), and its enharmonic is
\* Note(D, Fourth, Flat), which converts to the pitch of that same frequency.
C5_CSharpFourthIs13859 ==
    (last.op = "to_pitch" /\ last.arg = MkNote("C", "Fourth", "Sharp")) =>
        /\ last.res.ok
        /\ last.res.val.index = 37
        /\ PitchFrequency(last.res.val) = 13859
        /\ Enharmonic(last.arg) = MkNote("D", "Fourth", "Flat")
        /\ PitchFromNote(Enharmonic(last.arg)).ok
        /\ PitchFrequency(PitchFromNote(Enharmonic(last.arg)).val) = 13859

\* Pitch::from(Note(C, Fourth, Sharp)) was called and returned a pitch.
C5_Witness ==
    /\ last.op = "to_pitch"
    /\ last.arg = MkNote("C", "Fourth", "Sharp")
    /\ last.res.ok

\* C6: for every pitch p of PITCHES, Note::from(p) succeeds and is the
\* canonical spelling of p.number() (naturals with accidental None, the rest
\* sharps), in the octave index div 12; a Flat is never produced.
C6_CanonicalSpelling ==
    last.op = "from_pitch" =>
        /\ last.res.ok
        /\ last.res.val.letter = Canonical[(last.arg.index % 12) + 1][1]
        /\ last.res.val.accidental = Canonical[(last.arg.index % 12) + 1][2]
        /\ OctaveNumber(last.res.val.octave) = last.arg.index \div 12
        /\ last.res.val.accidental # "Flat"

\* Note::from of pitch 42 (number 6 in octave 3) gave F sharp in Fourth.
C6_Witness ==
    /\ last.op = "from_pitch"
    /\ last.arg.index = 42
    /\ last.res = Ok(MkNote("F", "Fourth", "Sharp"))

\* C7 (as claimed): for all valid notes a and b the comparison is defined and
\* agrees with the resolved pitch indices (a < b iff Pitch::from(a) <
\* Pitch::from(b)); a note and its enharmonic spelling compare Equal though
\* they differ under ==.
C7_OrderAgreesWithPitch ==
    last.op = "cmp" =>
        /\ last.res.ok
        /\ (last.res.val = "Less") <=>
              (PitchFromNote(last.arg).val.index < PitchFromNote(last.arg2).val.index)
        /\ (last.res.val = "Greater") <=>
              (PitchFromNote(last.arg).val.index > PitchFromNote(last.arg2).val.index)
        /\ (last.arg2 = Enharmonic(last.arg)) => last.res.val = "Equal"

\* Bad input of Interval::new: a frequency that is zero, negative or
\* non-finite.
BadFrequency(f) == f.k \in {"nan", "inf", "zero"} \/ f.s = -1

\* C8 (as claimed): every Interval returned holds finite cents; whenever an
\* input is zero, negative or non-finite the construction fails; for two
\* strictly positive finite frequencies it succeeds.
C8_IntervalFiniteOrFails ==
    last.op = "interval" =>
        /\ last.res.ok => last.res.val.cents.k = "fin"
        /\ (BadFrequency(last.arg) \/ BadFrequency(last.arg2)) => ~last.res.ok
        /\ (~BadFrequency(last.arg) /\ ~BadFrequency(last.arg2)) => last.res.ok

\* C8 (amended): every Interval returned holds cents that are not NaN (they
\* may be infinite); the construction fails only when an input is zero,
\* negative or non-finite; for two strictly positive finite frequencies it
\* succeeds.
C8_IntervalNotNan ==
    last.op = "interval" =>
        /\ last.res.ok => last.res.val.cents.k # "nan"
        /\ ~last.res.ok => (BadFrequency(last.arg) \/ BadFrequency(last.arg2))
        /\ (~BadFrequency(last.arg) /\ ~BadFrequency(last.arg2)) => last.res.ok

\* Interval::new of two strictly positive finite frequencies whose quotient
\* overflows returned an Interval of infinite cents.
C8_Witness ==
    /\ last.op = "interval"
    /\ ~BadFrequency(last.arg)
    /\ ~BadFrequency(last.arg2)
    /\ last.res.ok
    /\ last.res.val.cents.k = "inf"

\* C9: every note the client holds (from Note::new or Note::from, after any
\* number of enharmonic() calls) has an accidental legal for its letter; each
\* enharmonic() keeps the octave and returns a note of accidental None
\* unchanged.
C9_LegalityPreserved ==
    /\ note # NoNote => Legal(note)
    /\ last.op = "enharmonic" =>
          /\ note = last.res.val
          /\ Legal(last.res.val)
          /\ last.res.val.octave = last.arg.octave
          /\ last.arg.accidental = "None" => last.res.val = last.arg

\* enharmonic() was applied to G flat, a note only previous() of G serves,
\* and gave F sharp.
C9_Witness ==
    /\ last.op = "enharmonic"
    /\ last.arg = MkNote("G", "Tenth", "Flat")
    /\ note = MkNote("F", "Tenth", "Sharp")

\* C10 (as claimed): next and previous step through the cycle C, D, E, F, G,
\* A, B (wrapping B -> C and C -> B) and are mutual inverses.
C10_LetterStepsCyclicInverse ==
    /\ last.op = "next" =>
          /\ last.res.val = Cycle[(CyclePos(last.arg) % 7) + 1]
          /\ LetterPrevious(last.res.val) = last.arg
    /\ last.op = "previous" =>
          /\ last.res.val = Cycle[((CyclePos(last.arg) + 5) % 7) + 1]
          /\ LetterNext(last.res.val) = last.arg

=============================================================================
